---- MODULE Spec2Model ----
(***************************************************************************)
(* Plant-care backend (app.py): the plant collection, the care-rule table  *)
(* and the request handlers that derive and re-derive care schedules.      *)
(*                                                                         *)
(* Timestamps are modelled at day granularity as records [y, m, d]; an ISO *)
(* timestamp string of a request is the tuple <<y, m, d>> of its fields    *)
(* (<<>> is an absent or empty form value).  Text values (plant types) are *)
(* tuples of one-character strings.                                        *)
(***************************************************************************)
EXTENDS Integers, Sequences, FiniteSets, TLC

VARIABLES
    plants,      \* plant_collection: sequence of documents, _id = index
    request,     \* the request the last handler run received
    response,    \* the response the last handler run returned
    initLog,     \* the schedules add_plant has produced, in order, with their inputs
    nops,        \* number of handler runs so far
    raw,         \* Type Resolver: the text last resolved
    resolved,    \* Type Resolver: its result
    procs,       \* handler runs in flight, when handlers run concurrently
    users        \* users_collection: sequence of documents

vars == <<plants, request, response, initLog, nops, raw, resolved, procs, users>>

-----------------------------------------------------------------------------
(* Bounds *)

MaxPlants == 2
MaxOps == 3
MaxProcs == 2

-----------------------------------------------------------------------------
(* Calendar arithmetic: datetime + timedelta(days=n), relativedelta(months=n) *)

YearRange == 2018..2032

Date(y, m, d) == [y |-> y, m |-> m, d |-> d]

NoDate == Date(0, 0, 0)

IsLeap(y) == (y % 4 = 0) /\ ((y % 100 # 0) \/ (y % 400 = 0))

DaysInMonth(y, m) ==
    IF m = 2 THEN (IF IsLeap(y) THEN 29 ELSE 28)
    ELSE IF m \in {4, 6, 9, 11} THEN 30 ELSE 31

DaysBeforeYear(y) ==
    (y - 1) * 365 + ((y - 1) \div 4) - ((y - 1) \div 100) + ((y - 1) \div 400)

RECURSIVE DaysBeforeMonth(_, _)
DaysBeforeMonth(y, m) ==
    IF m = 1 THEN 0 ELSE DaysBeforeMonth(y, m - 1) + DaysInMonth(y, m - 1)

ToOrdinal(dt) == DaysBeforeYear(dt.y) + DaysBeforeMonth(dt.y, dt.m) + dt.d

FromOrdinal(n) ==
    LET y == CHOOSE yy \in YearRange :
                 DaysBeforeYear(yy) < n /\ n <= DaysBeforeYear(yy + 1)
        r == n - DaysBeforeYear(y)
        m == CHOOSE mm \in 1..12 :
                 DaysBeforeMonth(y, mm) < r
                 /\ r <= DaysBeforeMonth(y, mm) + DaysInMonth(y, mm)
    IN  Date(y, m, r - DaysBeforeMonth(y, m))

\* datetime + timedelta(days=n)
AddDays(dt, n) == FromOrdinal(ToOrdinal(dt) + n)

\* datetime + relativedelta(months=n): day-of-month clamped to the target month
AddMonths(dt, n) ==
    LET idx == dt.y * 12 + (dt.m - 1) + n
        y == idx \div 12
        m == (idx % 12) + 1
        last == DaysInMonth(y, m)
    IN  Date(y, m, IF dt.d < last THEN dt.d ELSE last)

\* datetime.fromisoformat(s.replace('Z', '+00:00')) accepts s
ParsesAsDate(s) ==
    /\ Len(s) = 3
    /\ s[1] \in YearRange
    /\ s[2] \in 1..12
    /\ s[3] \in 1..DaysInMonth(s[1], s[2])

FromIsoFormat(s) == Date(s[1], s[2], s[3])

-----------------------------------------------------------------------------
(* Text *)

UpperCase == <<"A","B","C","D","E","F","G","H","I","J","K","L","M",
               "N","O","P","Q","R","S","T","U","V","W","X","Y","Z">>
LowerCase == <<"a","b","c","d","e","f","g","h","i","j","k","l","m",
               "n","o","p","q","r","s","t","u","v","w","x","y","z">>

IsLowerLetter(c) == \E i \in 1..26 : LowerCase[i] = c

LowerChar(c) ==
    IF \E i \in 1..26 : UpperCase[i] = c
    THEN LowerCase[CHOOSE i \in 1..26 : UpperCase[i] = c]
    ELSE c

Lower(t) == [i \in 1..Len(t) |-> LowerChar(t[i])]

IsSpace(c) == c = " "

RECURSIVE LStrip(_)
LStrip(t) == IF t # <<>> /\ IsSpace(Head(t)) THEN LStrip(Tail(t)) ELSE t

RECURSIVE RStrip(_)
RStrip(t) ==
    IF t # <<>> /\ IsSpace(t[Len(t)]) THEN RStrip(SubSeq(t, 1, Len(t) - 1)) ELSE t

\* str.strip()
Strip(t) == RStrip(LStrip(t))

-----------------------------------------------------------------------------
(* Form values and the care-rule table *)

Indoor == <<"I","n","d","o","o","r">>
IndoorLc == <<"i","n","d","o","o","r">>
Cactus == <<"C","a","c","t","u","s">>
Herbs == <<"H","e","r","b","s">>
Fern == <<"F","e","r","n">>

U1 == <<"u","1">>
U2 == <<"u","2">>
Rex == <<"R","e","x">>

\* plant_care_rules_collection: reference data, read and never written by
\* any handler.  The Herbs rule has no frequency field (the handlers' defaults
\* apply); the Cactus rule holds non-positive frequencies.
plant_care_rules_collection == <<
    [plantType |-> Indoor, wateringFrequencyDays |-> 7,
     fertilizingFrequencyDays |-> 30, repottingFrequencyMonths |-> 1],
    [plantType |-> Cactus, wateringFrequencyDays |-> 0,
     fertilizingFrequencyDays |-> -2, repottingFrequencyMonths |-> 0],
    [plantType |-> Herbs] >>

RuleIds == 1..Len(plant_care_rules_collection)

\* find_one: the first document the filter matches, 0 for None
FirstMatch(ids) == IF ids = {} THEN 0 ELSE CHOOSE i \in ids : \A j \in ids : i <= j

\* plant_care_rules_collection.find_one({"plantType": plant_type})
find_rule(plant_type) ==
    FirstMatch({i \in RuleIds : plant_care_rules_collection[i].plantType = plant_type})

\* re.fullmatch of a pattern of literal characters and '.', option "i"
RegexMatchI(pattern, text) ==
    /\ Len(pattern) = Len(text)
    /\ \A i \in 1..Len(pattern) :
          pattern[i] = "." \/ LowerChar(pattern[i]) = LowerChar(text[i])

\* find_one({"plantType": {"$regex": f"^{plant_type.strip()}$", "$options": "i"}})
find_rule_regex(plant_type) ==
    FirstMatch({i \in RuleIds :
        RegexMatchI(Strip(plant_type), plant_care_rules_collection[i].plantType)})

\* rules.get(field, default)
rule_get(rule, field, default) ==
    IF field \in DOMAIN rule THEN rule[field] ELSE default

Kinds == {"water", "fertilize", "repot"}

LastField(k) ==
    CASE k = "water" -> "lastWateredDate"
      [] k = "fertilize" -> "lastFertilizedDate"
      [] k = "repot" -> "lastRepottedDate"

NextField(k) ==
    CASE k = "water" -> "nextWateringDate"
      [] k = "fertilize" -> "nextFertilizingDate"
      [] k = "repot" -> "nextRepottingDate"

ScheduleFields == {LastField(k) : k \in Kinds} \cup {NextField(k) : k \in Kinds}

\* $set: the document with the given fields overwritten or added
ApplySet(doc, fields) ==
    [f \in DOMAIN doc \cup DOMAIN fields |->
        IF f \in DOMAIN fields THEN fields[f] ELSE doc[f]]

-----------------------------------------------------------------------------
(* Schedule derivation *)

\* last + timedelta(days=freq)
NextByDays(last, freq) == AddDays(last, freq)

\* a month taken as thirty days
NextByMonths_ThirtyDays(last, freq) == AddDays(last, 30 * freq)

\* last + relativedelta(months=freq)
NextByMonths(last, freq) == AddMonths(last, freq)

\* the watering date staggered by the number of plants already stored
InitializeSchedule_Stateful(rules, lw, lf, lr) ==
    [lastWateredDate |-> lw,
     lastFertilizedDate |-> lf,
     lastRepottedDate |-> lr,
     nextWateringDate |->
         NextByDays(lw, rule_get(rules, "wateringFrequencyDays", 7) + Len(plants)),
     nextFertilizingDate |->
         NextByDays(lf, rule_get(rules, "fertilizingFrequencyDays", 30)),
     nextRepottingDate |->
         NextByMonths(lr, rule_get(rules, "repottingFrequencyMonths", 12))]

\* add_plant / update_plant: the six schedule fields from the rule and the
\* three parsed last-performed timestamps
InitializeSchedule(rules, lw, lf, lr) ==
    LET watering_freq_days == rule_get(rules, "wateringFrequencyDays", 7)
        fertilizing_freq_days == rule_get(rules, "fertilizingFrequencyDays", 30)
        repotting_freq_months == rule_get(rules, "repottingFrequencyMonths", 12)
    IN  [lastWateredDate |-> lw,
         lastFertilizedDate |-> lf,
         lastRepottedDate |-> lr,
         nextWateringDate |-> NextByDays(lw, watering_freq_days),
         nextFertilizingDate |-> NextByDays(lf, fertilizing_freq_days),
         nextRepottingDate |-> NextByMonths(lr, repotting_freq_months)]

\* the fertilizing branch reads the watering frequency
CareUpdateFields_WrongFrequency(rules, care_type, now) ==
    CASE care_type = "water" ->
           [lastWateredDate |-> now,
            nextWateringDate |->
                NextByDays(now, rule_get(rules, "wateringFrequencyDays", 7))]
      [] care_type = "fertilize" ->
           [lastFertilizedDate |-> now,
            nextFertilizingDate |->
                NextByDays(now, rule_get(rules, "wateringFrequencyDays", 7))]
      [] care_type = "repot" ->
           [lastRepottedDate |-> now,
            nextRepottingDate |->
                NextByMonths(now, rule_get(rules, "repottingFrequencyMonths", 12))]

\* watering also restarts the fertilizing schedule
CareUpdateFields_AllKinds(rules, care_type, now) ==
    CASE care_type = "water" ->
           [lastWateredDate |-> now,
            nextWateringDate |->
                NextByDays(now, rule_get(rules, "wateringFrequencyDays", 7)),
            lastFertilizedDate |-> now,
            nextFertilizingDate |->
                NextByDays(now, rule_get(rules, "fertilizingFrequencyDays", 30))]
      [] care_type = "fertilize" ->
           [lastFertilizedDate |-> now,
            nextFertilizingDate |->
                NextByDays(now, rule_get(rules, "fertilizingFrequencyDays", 30))]
      [] care_type = "repot" ->
           [lastRepottedDate |-> now,
            nextRepottingDate |->
                NextByMonths(now, rule_get(rules, "repottingFrequencyMonths", 12))]

\* log_plant_care: update_fields for a valid careType
CareUpdateFields(rules, care_type, now) ==
    CASE care_type = "water" ->
           [lastWateredDate |-> now,
            nextWateringDate |->
                NextByDays(now, rule_get(rules, "wateringFrequencyDays", 7))]
      [] care_type = "fertilize" ->
           [lastFertilizedDate |-> now,
            nextFertilizingDate |->
                NextByDays(now, rule_get(rules, "fertilizingFrequencyDays", 30))]
      [] care_type = "repot" ->
           [lastRepottedDate |-> now,
            nextRepottingDate |->
                NextByMonths(now, rule_get(rules, "repottingFrequencyMonths", 12))]

-----------------------------------------------------------------------------
(* Requests *)

\* valid ISO timestamps
D_2024_01_01 == <<2024, 1, 1>>
D_2023_12_15 == <<2023, 12, 15>>
D_2024_01_31 == <<2024, 1, 31>>
D_2024_03_31 == <<2024, 3, 31>>
D_2024_02_29 == <<2024, 2, 29>>
\* malformed timestamps: a day that does not exist, a month that does not exist
D_Bad == <<2024, 2, 30>>
D_Bad2 == <<2024, 13, 1>>

TripleA == [w |-> D_2024_01_01, f |-> D_2023_12_15, r |-> D_2024_01_31]
TripleB == [w |-> D_2024_03_31, f |-> D_2024_03_31, r |-> D_2024_02_29]

AddForm(uid, name, type, lw, lf, lr, da, img) ==
    [uid |-> uid, plantName |-> name, plantType |-> type,
     lastWateredDate |-> lw, lastFertilizedDate |-> lf, lastRepottedDate |-> lr,
     dateAcquired |-> da, plantImage |-> img]

BaseForm == AddForm(U1, Rex, Indoor, TripleA.w, TripleA.f, TripleA.r, <<>>, "none")

\* forms that pass every check of add_plant
GoodForms ==
    {AddForm(U1, Rex, t, tr.w, tr.f, tr.r, <<>>, "none") :
        t \in {Indoor, Cactus, Herbs}, tr \in {TripleA, TripleB}}
    \cup {AddForm(U2, Rex, Indoor, TripleB.w, TripleB.f, TripleB.r,
                  D_2023_12_15, "ok")}

\* forms with one or two faults
FaultyForms ==
    {[BaseForm EXCEPT !.uid = <<>>],
     [BaseForm EXCEPT !.plantName = <<>>],
     [BaseForm EXCEPT !.lastFertilizedDate = <<>>],
     [BaseForm EXCEPT !.plantType = Fern],
     [BaseForm EXCEPT !.plantType = IndoorLc],
     [BaseForm EXCEPT !.lastWateredDate = D_Bad],
     [BaseForm EXCEPT !.lastFertilizedDate = D_Bad2],
     [BaseForm EXCEPT !.lastRepottedDate = D_Bad],
     [BaseForm EXCEPT !.lastWateredDate = D_Bad, !.lastRepottedDate = D_Bad2],
     [BaseForm EXCEPT !.dateAcquired = D_Bad],
     [BaseForm EXCEPT !.plantImage = "fail"],
     [BaseForm EXCEPT !.plantType = Fern, !.lastWateredDate = D_Bad],
     [BaseForm EXCEPT !.plantType = <<>>, !.lastRepottedDate = D_Bad]}

AddForms == GoodForms \cup FaultyForms

\* update_plant reads the same form fields, uid excepted
UpdateForms ==
    {[BaseForm EXCEPT !.uid = <<>>],
     [BaseForm EXCEPT !.uid = <<>>, !.lastWateredDate = TripleB.w,
                      !.lastFertilizedDate = TripleB.f, !.lastRepottedDate = TripleB.r],
     [BaseForm EXCEPT !.uid = <<>>, !.plantType = Herbs, !.plantImage = "ok"],
     [BaseForm EXCEPT !.uid = <<>>, !.plantType = IndoorLc],
     [BaseForm EXCEPT !.uid = <<>>, !.plantType = Cactus],
     [BaseForm EXCEPT !.uid = <<>>, !.plantType = <<>>],
     [BaseForm EXCEPT !.uid = <<>>, !.plantType = Fern],
     [BaseForm EXCEPT !.uid = <<>>, !.lastRepottedDate = D_Bad],
     [BaseForm EXCEPT !.uid = <<>>, !.dateAcquired = D_Bad2],
     [BaseForm EXCEPT !.uid = <<>>, !.plantImage = "fail"]}

\* plant ids of requests: 0 is a string that is no ObjectId, Len(plants) + 1
\* a well-formed id of no stored plant
StoredIds == 1..Len(plants)
StrayIds == {0, Len(plants) + 1}

CareTypes == Kinds \cup {"prune", ""}

\* values datetime.now() returns
Nows == {Date(2024, 1, 31), Date(2024, 5, 31)}

Uids == {U1, U2}

-----------------------------------------------------------------------------
(* add_plant *)

Missing(v) == v = <<>>

\* the document add_plant inserts
PlantData(form, rules, url) ==
    ApplySet(
        [uid |-> form.uid,
         plantName |-> form.plantName,
         plantType |-> form.plantType,
         dateAcquired |-> IF Missing(form.dateAcquired) THEN NoDate
                          ELSE FromIsoFormat(form.dateAcquired),
         photo_url |-> url,
         isArchived |-> FALSE],
        InitializeSchedule(rules,
                           FromIsoFormat(form.lastWateredDate),
                           FromIsoFormat(form.lastFertilizedDate),
                           FromIsoFormat(form.lastRepottedDate)))

Outcome(status, message, writes) ==
    [status |-> status, message |-> message, writes |-> writes]

InternalError == "An internal server error occurred"

\* the document is inserted before the last timestamp is parsed
add_plant_outcome_PartialInsert(form) ==
    LET rule == find_rule(form.plantType)
    IN  IF \E f \in {"uid", "plantName", "plantType", "lastWateredDate",
                     "lastFertilizedDate", "lastRepottedDate"} : Missing(form[f])
        THEN Outcome(400, "Missing required fields", <<>>)
        ELSE IF form.plantImage = "fail"
        THEN Outcome(500, InternalError, <<>>)
        ELSE IF rule = 0
        THEN Outcome(404, "Care rules for plant type not found.", <<>>)
        ELSE IF \/ ~ParsesAsDate(form.lastWateredDate)
                \/ ~ParsesAsDate(form.lastFertilizedDate)
        THEN Outcome(500, InternalError, <<>>)
        ELSE IF ~ParsesAsDate(form.lastRepottedDate)
        THEN Outcome(500, InternalError,
                     <<PlantData([form EXCEPT !.lastRepottedDate = form.lastWateredDate,
                                              !.dateAcquired = <<>>],
                                 plant_care_rules_collection[rule], "None")>>)
        ELSE IF ~Missing(form.dateAcquired) /\ ~ParsesAsDate(form.dateAcquired)
        THEN Outcome(500, InternalError, <<>>)
        ELSE Outcome(201, "Plant added successfully!",
                     <<PlantData(form, plant_care_rules_collection[rule],
                                 IF form.plantImage = "ok" THEN "secure_url"
                                 ELSE "None")>>)

\* add_plant: the response and the documents inserted
add_plant_outcome(form) ==
    LET rule == find_rule(form.plantType)
        url == IF form.plantImage = "ok" THEN "secure_url" ELSE "None"
    IN  IF \E f \in {"uid", "plantName", "plantType", "lastWateredDate",
                     "lastFertilizedDate", "lastRepottedDate"} : Missing(form[f])
        THEN Outcome(400, "Missing required fields", <<>>)
        ELSE IF form.plantImage = "fail"
        THEN Outcome(500, InternalError, <<>>)
        ELSE IF rule = 0
        THEN Outcome(404, "Care rules for plant type not found.", <<>>)
        ELSE IF \/ ~ParsesAsDate(form.lastWateredDate)
                \/ ~ParsesAsDate(form.lastFertilizedDate)
                \/ ~ParsesAsDate(form.lastRepottedDate)
        THEN Outcome(500, InternalError, <<>>)
        ELSE IF ~Missing(form.dateAcquired) /\ ~ParsesAsDate(form.dateAcquired)
        THEN Outcome(500, InternalError, <<>>)
        ELSE Outcome(201, "Plant added successfully!",
                     <<PlantData(form, plant_care_rules_collection[rule], url)>>)

Schedule(doc) == [f \in ScheduleFields |-> doc[f]]

add_plant(form) ==
    LET out == add_plant_outcome(form)
    IN  /\ nops < MaxOps
        /\ Len(plants) + Len(out.writes) <= MaxPlants
        /\ plants' = plants \o out.writes
        /\ request' = [op |-> "add_plant", plant_id |-> 0, form |-> form]
        /\ response' = [status |-> out.status, message |-> out.message,
                        plant |-> out.writes]
        /\ initLog' = initLog \o
              [i \in 1..Len(out.writes) |->
                  [plantType |-> form.plantType,
                   lastWateredDate |-> form.lastWateredDate,
                   lastFertilizedDate |-> form.lastFertilizedDate,
                   lastRepottedDate |-> form.lastRepottedDate,
                   schedule |-> Schedule(out.writes[i])]]
        /\ nops' = nops + 1
        /\ UNCHANGED <<raw, resolved, procs, users>>

-----------------------------------------------------------------------------
(* update_plant *)

Matched(plant_id) == plant_id \in 1..Len(plants)

\* update_data built like add_plant's plant_data, archive flag included
UpdateData_Unarchive(form, rules) ==
    ApplySet(
        [plantName |-> form.plantName,
         plantType |-> form.plantType,
         dateAcquired |-> IF Missing(form.dateAcquired) THEN NoDate
                          ELSE FromIsoFormat(form.dateAcquired),
         isArchived |-> FALSE],
        InitializeSchedule(rules,
                           FromIsoFormat(form.lastWateredDate),
                           FromIsoFormat(form.lastFertilizedDate),
                           FromIsoFormat(form.lastRepottedDate)))

\* update_data: the fields update_plant sets
UpdateData(form, rules) ==
    ApplySet(
        ApplySet(
            [plantName |-> form.plantName,
             plantType |-> form.plantType,
             dateAcquired |-> IF Missing(form.dateAcquired) THEN NoDate
                              ELSE FromIsoFormat(form.dateAcquired)],
            InitializeSchedule(rules,
                               FromIsoFormat(form.lastWateredDate),
                               FromIsoFormat(form.lastFertilizedDate),
                               FromIsoFormat(form.lastRepottedDate))),
        IF form.plantImage = "ok" THEN [photo_url |-> "secure_url"]
        ELSE [x \in {} |-> 0])

\* update_plant: the response and the $set it applies to plants[plant_id]
update_plant_outcome(plant_id, form) ==
    LET rule == find_rule_regex(form.plantType)
    IN  IF \E f \in {"plantName", "plantType", "lastWateredDate",
                     "lastFertilizedDate", "lastRepottedDate"} : Missing(form[f])
        THEN Outcome(400, "Missing required fields (plantName, plantType, lastWateredDate)", <<>>)
        ELSE IF rule = 0
        THEN Outcome(404, "Care rules for plant type not found.", <<>>)
        ELSE IF \/ ~ParsesAsDate(form.lastWateredDate)
                \/ ~ParsesAsDate(form.lastFertilizedDate)
                \/ ~ParsesAsDate(form.lastRepottedDate)
        THEN Outcome(500, InternalError, <<>>)
        ELSE IF ~Missing(form.dateAcquired) /\ ~ParsesAsDate(form.dateAcquired)
        THEN Outcome(500, InternalError, <<>>)
        ELSE IF form.plantImage = "fail"
        THEN Outcome(500, InternalError, <<>>)
        ELSE IF plant_id = 0
        THEN Outcome(500, InternalError, <<>>)
        ELSE IF ~Matched(plant_id)
        THEN Outcome(404, "Plant not found", <<>>)
        ELSE Outcome(200, "Plant updated successfully",
                     <<UpdateData(form, plant_care_rules_collection[rule])>>)

\* update_one({"_id": plant_id}, {"$set": fields}) for each element of writes
UpdateOne(plant_id, writes) ==
    IF writes = <<>> \/ ~Matched(plant_id) THEN plants
    ELSE [plants EXCEPT ![plant_id] = ApplySet(@, writes[1])]

update_plant(plant_id, form) ==
    LET out == update_plant_outcome(plant_id, form)
    IN  /\ nops < MaxOps
        /\ plants' = UpdateOne(plant_id, out.writes)
        /\ request' = [op |-> "update_plant", plant_id |-> plant_id, form |-> form]
        /\ response' = [status |-> out.status, message |-> out.message,
                        plant |-> IF out.writes = <<>> THEN <<>>
                                  ELSE <<plants'[plant_id]>>]
        /\ nops' = nops + 1
        /\ UNCHANGED <<initLog, raw, resolved, procs, users>>

-----------------------------------------------------------------------------
(* log_plant_care *)

\* no check of the rule lookup: reading a frequency of None raises
log_plant_care_outcome_NoRuleCheck(plant_id, care_type, now) ==
    LET rule == IF Matched(plant_id) THEN find_rule(plants[plant_id].plantType)
                ELSE 0
    IN  IF care_type = ""
        THEN Outcome(400, "Missing 'careType' in request", <<>>)
        ELSE IF plant_id = 0
        THEN Outcome(500, InternalError, <<>>)
        ELSE IF ~Matched(plant_id)
        THEN Outcome(404, "Plant not found", <<>>)
        ELSE IF care_type \notin Kinds
        THEN Outcome(400, "Invalid 'careType'", <<>>)
        ELSE IF rule = 0
        THEN Outcome(500, InternalError, <<>>)
        ELSE Outcome(200, "logged successfully!",
                     <<CareUpdateFields(plant_care_rules_collection[rule],
                                        care_type, now)>>)

\* log_plant_care: the response and the $set it applies to plants[plant_id]
log_plant_care_outcome(plant_id, care_type, now) ==
    LET rule == IF Matched(plant_id) THEN find_rule(plants[plant_id].plantType)
                ELSE 0
    IN  IF care_type = ""
        THEN Outcome(400, "Missing 'careType' in request", <<>>)
        ELSE IF plant_id = 0
        THEN Outcome(500, InternalError, <<>>)
        ELSE IF ~Matched(plant_id)
        THEN Outcome(404, "Plant not found", <<>>)
        ELSE IF rule = 0
        THEN Outcome(404, "Care rules not found", <<>>)
        ELSE IF care_type \notin Kinds
        THEN Outcome(400, "Invalid 'careType'", <<>>)
        ELSE Outcome(200, "logged successfully!",
                     <<CareUpdateFields(plant_care_rules_collection[rule],
                                        care_type, now)>>)

log_plant_care(plant_id, care_type, now) ==
    LET out == log_plant_care_outcome(plant_id, care_type, now)
    IN  /\ nops < MaxOps
        /\ plants' = UpdateOne(plant_id, out.writes)
        /\ request' = [op |-> "log_plant_care", plant_id |-> plant_id,
                       careType |-> care_type, now |-> now]
        /\ response' = [status |-> out.status, message |-> out.message,
                        plant |-> IF out.writes = <<>> THEN <<>>
                                  ELSE <<plants'[plant_id]>>]
        /\ nops' = nops + 1
        /\ UNCHANGED <<initLog, raw, resolved, procs, users>>

-----------------------------------------------------------------------------
(* delete_plant, get_garden, get_plant_details *)

\* archiving also clears the next-due dates
delete_plant_outcome_ClearsSchedule(plant_id) ==
    IF plant_id = 0 THEN Outcome(500, InternalError, <<>>)
    ELSE IF ~Matched(plant_id) THEN Outcome(404, "Plant not found", <<>>)
    ELSE Outcome(200, "Plant archived successfully",
                 <<[isArchived |-> TRUE, nextWateringDate |-> NoDate,
                    nextFertilizingDate |-> NoDate, nextRepottingDate |-> NoDate]>>)

delete_plant_outcome(plant_id) ==
    IF plant_id = 0 THEN Outcome(500, InternalError, <<>>)
    ELSE IF ~Matched(plant_id) THEN Outcome(404, "Plant not found", <<>>)
    ELSE Outcome(200, "Plant archived successfully", <<[isArchived |-> TRUE]>>)

delete_plant(plant_id) ==
    LET out == delete_plant_outcome(plant_id)
    IN  /\ nops < MaxOps
        /\ plants' = UpdateOne(plant_id, out.writes)
        /\ request' = [op |-> "delete_plant", plant_id |-> plant_id]
        /\ response' = [status |-> out.status, message |-> out.message,
                        plant |-> <<>>]
        /\ nops' = nops + 1
        /\ UNCHANGED <<initLog, raw, resolved, procs, users>>

\* plant_collection.find({"uid": uid, "$or": [{"isArchived": False}, ...]})
GardenOf(uid) ==
    SelectSeq(plants, LAMBDA p : p.uid = uid /\ p.isArchived = FALSE)

get_garden(uid) ==
    /\ nops < MaxOps
    /\ request' = [op |-> "get_garden", plant_id |-> 0, uid |-> uid]
    /\ response' = [status |-> 200, message |-> "", plant |-> GardenOf(uid)]
    /\ nops' = nops + 1
    /\ UNCHANGED <<plants, initLog, raw, resolved, procs, users>>

get_plant_details(plant_id) ==
    /\ nops < MaxOps
    /\ request' = [op |-> "get_plant_details", plant_id |-> plant_id]
    /\ response' =
          IF plant_id = 0
          THEN [status |-> 500, message |-> "invalid ObjectId", plant |-> <<>>]
          ELSE IF ~Matched(plant_id)
          THEN [status |-> 404, message |-> "Plant not found", plant |-> <<>>]
          ELSE [status |-> 200, message |-> "", plant |-> <<plants[plant_id]>>]
    /\ nops' = nops + 1
    /\ UNCHANGED <<plants, initLog, raw, resolved, procs, users>>

-----------------------------------------------------------------------------
(* The service *)

Init ==
    /\ plants = <<>>
    /\ request = [op |-> "none", plant_id |-> 0]
    /\ response = [status |-> 0, message |-> "", plant |-> <<>>]
    /\ initLog = <<>>
    /\ nops = 0
    /\ raw = <<>>
    /\ resolved = "unresolved"
    /\ procs = <<>>
    /\ users = <<>>

AddPlant == \E form \in AddForms : add_plant(form)
UpdatePlant ==
    \/ \E id \in StoredIds, form \in UpdateForms : update_plant(id, form)
    \/ \E id \in StrayIds : update_plant(id, [BaseForm EXCEPT !.uid = <<>>])
LogPlantCare ==
    \/ \E id \in StoredIds, care_type \in CareTypes, now \in Nows :
          log_plant_care(id, care_type, now)
    \/ \E id \in StrayIds, care_type \in {"water", ""} :
          log_plant_care(id, care_type, Date(2024, 1, 31))
DeletePlant == \E id \in StoredIds \cup StrayIds : delete_plant(id)
GetGarden == \E uid \in Uids : get_garden(uid)
GetPlantDetails == \E id \in StoredIds \cup StrayIds : get_plant_details(id)

Next ==
    \/ AddPlant
    \/ UpdatePlant
    \/ LogPlantCare
    \/ DeletePlant
    \/ GetGarden
    \/ GetPlantDetails

Spec == Init /\ [][Next]_vars

\* the schedule engine alone: plant creation and care logging
NextCare ==
    \/ AddPlant
    \/ LogPlantCare

SpecCare == Init /\ [][NextCare]_vars

-----------------------------------------------------------------------------
(* Type Resolver *)

CanonicalKeys == <<
    [key |-> <<"i","n","d","o","o","r">>, type |-> "Indoor"],
    [key |-> <<"o","u","t","d","o","o","r">>, type |-> "Outdoor"],
    [key |-> <<"f","l","o","w","e","r">>, type |-> "Flower"],
    [key |-> <<"v","e","g","e","t","a","b","l","e">>, type |-> "Vegetable"],
    [key |-> <<"h","e","r","b","s">>, type |-> "Herbs"],
    [key |-> <<"c","a","c","t","u","s">>, type |-> "Cactus"] >>

KeyIds == 1..Len(CanonicalKeys)

\* every character that is not a lowercase letter becomes a space
Blank(t) == [i \in 1..Len(t) |-> IF IsLowerLetter(t[i]) THEN t[i] ELSE " "]

\* runs of spaces become one space
RECURSIVE Collapse(_)
Collapse(t) ==
    IF Len(t) <= 1 THEN t
    ELSE IF IsSpace(t[1]) /\ IsSpace(t[2]) THEN Collapse(Tail(t))
    ELSE <<t[1]>> \o Collapse(Tail(t))

\* no singularization
Singular_Keep(t) == t

\* one trailing 's' is removed
Singular(t) ==
    IF t # <<>> /\ t[Len(t)] = "s" THEN SubSeq(t, 1, Len(t) - 1) ELSE t

Normalize(t) == Singular(Strip(Collapse(Blank(Lower(t)))))

Contains(t, k) ==
    \E i \in 0..(Len(t) - Len(k)) : SubSeq(t, i + 1, i + Len(k)) = k

resolvePlantType(t) ==
    LET n == Normalize(t)
        exact == {i \in KeyIds : CanonicalKeys[i].key = n}
        inside == {i \in KeyIds : Contains(n, CanonicalKeys[i].key)}
    IN  IF t = <<>> THEN "unresolved"
        ELSE IF exact # {} THEN CanonicalKeys[FirstMatch(exact)].type
        ELSE IF inside # {} THEN CanonicalKeys[FirstMatch(inside)].type
        ELSE "unresolved"

Capitalize(t) ==
    [i \in 1..Len(t) |->
        IF i = 1 /\ IsLowerLetter(t[1])
        THEN UpperCase[CHOOSE j \in 1..26 : LowerCase[j] = t[1]]
        ELSE t[i]]

RawWords ==
    {CanonicalKeys[i].key : i \in KeyIds}
    \cup {Capitalize(CanonicalKeys[i].key) : i \in KeyIds}
    \cup {<<"h","e","r","b">>, <<"f","e","r","n">>, <<"m","o","s","s">>}

RawPrefixes == {<<>>, <<"*"," ">>, <<"x","y","z">>, <<"M","y"," "," ">>}

RawSuffixes == {<<>>, <<"s">>, <<" ","p","l","a","n","t","s">>, <<"a","b","c">>}

RawTexts ==
    {<<>>} \cup {p \o w \o x : p \in RawPrefixes, w \in RawWords, x \in RawSuffixes}

Resolve ==
    \E t \in RawTexts :
        /\ raw' = t
        /\ resolved' = resolvePlantType(t)
        /\ UNCHANGED <<plants, request, response, initLog, nops, procs, users>>

NextResolver == Resolve

SpecResolver == Init /\ [][NextResolver]_vars

-----------------------------------------------------------------------------
(* Concurrent handler runs: each database call is one atomic step *)

ProcIds == 1..Len(procs)

AllDone == \A p \in ProcIds : procs[p].pc = "done"

\* the run returns
Return(run, status, message) ==
    [run EXCEPT !.pc = "done", !.status = status, !.message = message]

LogRun(plant_id, care_type) ==
    [op |-> "log_plant_care", plant_id |-> plant_id, careType |-> care_type,
     pc |-> "find_plant", plant |-> <<>>, now |-> NoDate, writes |-> <<>>,
     status |-> 0, message |-> "", reply |-> <<>>]

\* log_plant_care up to plant_collection.find_one
LogFindPlant(p) ==
    LET run == procs[p]
    IN  /\ run.op = "log_plant_care"
        /\ run.pc = "find_plant"
        /\ procs' = [procs EXCEPT ![p] =
              IF run.careType = ""
              THEN Return(run, 400, "Missing 'careType' in request")
              ELSE IF run.plant_id = 0
              THEN Return(run, 500, InternalError)
              ELSE IF ~Matched(run.plant_id)
              THEN Return(run, 404, "Plant not found")
              ELSE [run EXCEPT !.pc = "find_rules",
                               !.plant = <<plants[run.plant_id]>>]]
        /\ UNCHANGED <<plants, request, response, initLog, nops, raw, resolved, users>>

\* log_plant_care from the rule lookup to the computed update_fields
LogFindRules(p) ==
    LET run == procs[p]
        rule == find_rule(run.plant[1].plantType)
    IN  /\ run.op = "log_plant_care"
        /\ run.pc = "find_rules"
        /\ \E now \in Nows :
              procs' = [procs EXCEPT ![p] =
                  IF rule = 0
                  THEN Return(run, 404, "Care rules not found")
                  ELSE IF run.careType \notin Kinds
                  THEN Return(run, 400, "Invalid 'careType'")
                  ELSE [run EXCEPT
                          !.pc = "update",
                          !.now = now,
                          !.writes = <<CareUpdateFields(
                                          plant_care_rules_collection[rule],
                                          run.careType, now)>>]]
        /\ UNCHANGED <<plants, request, response, initLog, nops, raw, resolved, users>>

\* the two dates written by two update_one calls, one field each
LogUpdate_Split(p) ==
    LET run == procs[p]
        w == run.writes[1]
        first == LastField(run.careType)
    IN  /\ run.op = "log_plant_care"
        /\ run.pc = "update"
        /\ IF first \in DOMAIN w
           THEN /\ plants' = UpdateOne(run.plant_id, <<[f \in {first} |-> w[f]]>>)
                /\ procs' = [procs EXCEPT ![p].writes =
                                <<[f \in DOMAIN w \ {first} |-> w[f]]>>]
           ELSE /\ plants' = UpdateOne(run.plant_id, run.writes)
                /\ procs' = [procs EXCEPT ![p].pc = "reply"]
        /\ UNCHANGED <<request, response, initLog, nops, raw, resolved, users>>

\* log_plant_care: plant_collection.update_one({"_id": ...}, {"$set": update_fields})
LogUpdate(p) ==
    LET run == procs[p]
    IN  /\ run.op = "log_plant_care"
        /\ run.pc = "update"
        /\ plants' = UpdateOne(run.plant_id, run.writes)
        /\ procs' = [procs EXCEPT ![p].pc = "reply"]
        /\ UNCHANGED <<request, response, initLog, nops, raw, resolved, users>>

\* log_plant_care: the re-read and the response
LogReply(p) ==
    LET run == procs[p]
    IN  /\ run.op = "log_plant_care"
        /\ run.pc = "reply"
        /\ procs' = [procs EXCEPT ![p] =
              [Return(run, 200, "logged successfully!") EXCEPT
                  !.reply = IF Matched(run.plant_id)
                            THEN <<plants[run.plant_id]>> ELSE <<>>]]
        /\ UNCHANGED <<plants, request, response, initLog, nops, raw, resolved, users>>

UpdateRun(plant_id, form) ==
    [op |-> "update_plant", plant_id |-> plant_id, form |-> form,
     pc |-> "find_rules", writes |-> <<>>,
     status |-> 0, message |-> "", reply |-> <<>>]

\* update_plant from the rule lookup to the built update_data and the upload
UpdatePrepare(p) ==
    LET run == procs[p]
        form == run.form
        rule == find_rule_regex(form.plantType)
    IN  /\ run.op = "update_plant"
        /\ run.pc = "find_rules"
        /\ procs' = [procs EXCEPT ![p] =
              IF \E f \in {"plantName", "plantType", "lastWateredDate",
                           "lastFertilizedDate", "lastRepottedDate"} :
                     Missing(form[f])
              THEN Return(run, 400,
                      "Missing required fields (plantName, plantType, lastWateredDate)")
              ELSE IF rule = 0
              THEN Return(run, 404, "Care rules for plant type not found.")
              ELSE IF \/ ~ParsesAsDate(form.lastWateredDate)
                      \/ ~ParsesAsDate(form.lastFertilizedDate)
                      \/ ~ParsesAsDate(form.lastRepottedDate)
              THEN Return(run, 500, InternalError)
              ELSE IF ~Missing(form.dateAcquired) /\ ~ParsesAsDate(form.dateAcquired)
              THEN Return(run, 500, InternalError)
              ELSE IF form.plantImage = "fail"
              THEN Return(run, 500, InternalError)
              ELSE [run EXCEPT
                      !.pc = "update",
                      !.writes = <<UpdateData(form,
                                              plant_care_rules_collection[rule])>>]]
        /\ UNCHANGED <<plants, request, response, initLog, nops, raw, resolved, users>>

\* update_plant: plant_collection.update_one({"_id": ...}, {"$set": update_data})
UpdateWrite(p) ==
    LET run == procs[p]
    IN  /\ run.op = "update_plant"
        /\ run.pc = "update"
        /\ plants' = UpdateOne(run.plant_id, run.writes)
        /\ procs' = [procs EXCEPT ![p] =
              IF run.plant_id = 0 THEN Return(run, 500, InternalError)
              ELSE IF ~Matched(run.plant_id) THEN Return(run, 404, "Plant not found")
              ELSE [run EXCEPT !.pc = "reply"]]
        /\ UNCHANGED <<request, response, initLog, nops, raw, resolved, users>>

\* update_plant: the re-read and the response
UpdateReply(p) ==
    LET run == procs[p]
    IN  /\ run.op = "update_plant"
        /\ run.pc = "reply"
        /\ procs' = [procs EXCEPT ![p] =
              [Return(run, 200, "Plant updated successfully") EXCEPT
                  !.reply = <<plants[run.plant_id]>>]]
        /\ UNCHANGED <<plants, request, response, initLog, nops, raw, resolved, users>>

\* plants as add_plant leaves them, for the concurrent runs to work on
SeedForms ==
    {BaseForm,
     AddForm(U1, Rex, Herbs, TripleB.w, TripleB.f, TripleB.r, <<>>, "none")}

SeedPlants == {add_plant_outcome(form).writes : form \in SeedForms}

LogRuns ==
    {LogRun(1, care_type) : care_type \in CareTypes}
    \cup {LogRun(id, "water") : id \in {0, 2}}

UpdateRuns ==
    {UpdateRun(1, form) : form \in
        {[BaseForm EXCEPT !.uid = <<>>, !.lastWateredDate = TripleB.w,
                          !.lastFertilizedDate = TripleB.f,
                          !.lastRepottedDate = TripleB.r],
         [BaseForm EXCEPT !.uid = <<>>, !.plantType = Herbs],
         [BaseForm EXCEPT !.uid = <<>>, !.plantType = Fern]}}
    \cup {UpdateRun(2, [BaseForm EXCEPT !.uid = <<>>])}

\* the sequences of n runs drawn from a set of runs
RECURSIVE RunSeqs(_, _)
RunSeqs(runs, n) ==
    IF n = 0 THEN {<<>>}
    ELSE {Append(q, r) : q \in RunSeqs(runs, n - 1), r \in runs}

InitRuns(seed, runs) ==
    /\ plants \in seed
    /\ request = [op |-> "none", plant_id |-> 0]
    /\ response = [status |-> 0, message |-> "", plant |-> <<>>]
    /\ initLog = <<>>
    /\ nops = 0
    /\ raw = <<>>
    /\ resolved = "unresolved"
    /\ procs \in runs
    /\ users = <<>>

\* concurrent log_plant_care runs
InitLogRace == InitRuns(SeedPlants, RunSeqs(LogRuns, MaxProcs))

NextLogRace ==
    \/ \E p \in ProcIds : LogFindPlant(p)
    \/ \E p \in ProcIds : LogFindRules(p)
    \/ \E p \in ProcIds : LogUpdate(p)
    \/ \E p \in ProcIds : LogReply(p)

SpecLogRace == InitLogRace /\ [][NextLogRace]_vars

\* one update_plant run concurrent with log_plant_care runs
InitUpdateRace ==
    InitRuns(SeedPlants,
             {<<u>> \o q : u \in UpdateRuns, q \in RunSeqs(LogRuns, MaxProcs - 1)})

NextUpdateRace ==
    \/ \E p \in ProcIds : LogFindPlant(p)
    \/ \E p \in ProcIds : LogFindRules(p)
    \/ \E p \in ProcIds : LogUpdate(p)
    \/ \E p \in ProcIds : LogReply(p)
    \/ \E p \in ProcIds : UpdatePrepare(p)
    \/ \E p \in ProcIds : UpdateWrite(p)
    \/ \E p \in ProcIds : UpdateReply(p)

SpecUpdateRace == InitUpdateRace /\ [][NextUpdateRace]_vars

-----------------------------------------------------------------------------
(* create_user_profile, concurrent runs *)

Ann == <<"A","n","n">>
Mail == <<"a","@","x">>

UserRun(uid, username, email) ==
    [op |-> "create_user_profile", uid |-> uid, username |-> username,
     email |-> email, pc |-> "find_user", status |-> 0, message |-> ""]

\* the document create_user_profile inserts
user_document(run) ==
    [uid |-> run.uid, username |-> run.username, email |-> run.email]

\* users_collection.find_one({"uid": uid}) is truthy
UserExists(uid) == \E i \in 1..Len(users) : users[i].uid = uid

\* create_user_profile up to users_collection.find_one
CreateFindUser(p) ==
    LET run == procs[p]
    IN  /\ run.op = "create_user_profile"
        /\ run.pc = "find_user"
        /\ procs' = [procs EXCEPT ![p] =
              IF Missing(run.uid)
              THEN Return(run, 400, "Missing user ID (uid)")
              ELSE IF UserExists(run.uid)
              THEN Return(run, 200, "User profile already exists")
              ELSE [run EXCEPT !.pc = "insert"]]
        /\ UNCHANGED <<plants, request, response, initLog, nops, raw, resolved, users>>

\* create_user_profile: users_collection.insert_one(user_document) and the response
CreateInsert(p) ==
    LET run == procs[p]
    IN  /\ run.op = "create_user_profile"
        /\ run.pc = "insert"
        /\ users' = Append(users, user_document(run))
        /\ procs' = [procs EXCEPT ![p] = Return(run, 201, "User profile created")]
        /\ UNCHANGED <<plants, request, response, initLog, nops, raw, resolved>>

UserRuns ==
    {UserRun(uid, username, Mail) : uid \in Uids \cup {<<>>}, username \in {Rex, Ann}}

SeedUsers == {<<>>, <<user_document(UserRun(U1, Rex, Mail))>>}

InitUsers ==
    /\ plants = <<>>
    /\ request = [op |-> "none", plant_id |-> 0]
    /\ response = [status |-> 0, message |-> "", plant |-> <<>>]
    /\ initLog = <<>>
    /\ nops = 0
    /\ raw = <<>>
    /\ resolved = "unresolved"
    /\ procs \in RunSeqs(UserRuns, MaxProcs)
    /\ users \in SeedUsers

NextUsers ==
    \/ \E p \in ProcIds : CreateFindUser(p)
    \/ \E p \in ProcIds : CreateInsert(p)

SpecUsers == InitUsers /\ [][NextUsers]_vars

-----------------------------------------------------------------------------
(* Properties: helpers *)

\* the frequency the handlers read for care kind k from the rule that the
\* exact-match lookup finds for plant_type
CareFrequency(plant_type, k) ==
    LET rules == plant_care_rules_collection[find_rule(plant_type)]
    IN  CASE k = "water" -> rule_get(rules, "wateringFrequencyDays", 7)
          [] k = "fertilize" -> rule_get(rules, "fertilizingFrequencyDays", 30)
          [] k = "repot" -> rule_get(rules, "repottingFrequencyMonths", 12)

\* last + frequency_k: days for watering and fertilizing, months for repotting
PlusFrequency(last, plant_type, k) ==
    IF k = "repot" THEN AddMonths(last, CareFrequency(plant_type, k))
    ELSE AddDays(last, CareFrequency(plant_type, k))

ScheduleDerived(doc) ==
    /\ find_rule(doc.plantType) # 0
    /\ \A k \in Kinds :
          doc[NextField(k)] = PlusFrequency(doc[LastField(k)], doc.plantType, k)

RequiredAddFields ==
    {"uid", "plantName", "plantType", "lastWateredDate", "lastFertilizedDate",
     "lastRepottedDate"}

TimestampFields == {"lastWateredDate", "lastFertilizedDate", "lastRepottedDate"}

MalformedFields(form) ==
    {f \in TimestampFields : ~Missing(form[f]) /\ ~ParsesAsDate(form[f])}

-----------------------------------------------------------------------------
(* C1 *)

\* C1: under any sequence of plant creations and care-logging events, every
\* stored plant (and every plant document a response carries) has, for each
\* care kind k, next_k = last_k + frequency_k, the frequency being that of the
\* care rule of the plant's stored type: days for watering and fertilizing,
\* calendar months for repotting.
C1_ScheduleInvariant ==
    /\ \A i \in 1..Len(plants) : ScheduleDerived(plants[i])
    /\ \A i \in 1..Len(response.plant) : ScheduleDerived(response.plant[i])

\* a plant was created and care has been logged on it, another plant is stored
C1_Witness ==
    /\ request.op = "log_plant_care"
    /\ response.status = 200
    /\ request.careType = "fertilize"
    /\ Len(plants) = 2
    /\ plants[request.plant_id].lastFertilizedDate = request.now

-----------------------------------------------------------------------------
(* C2 *)

\* C2: a successful log-care event for kind k at time now sets last_k = now
\* and next_k = now + frequency_k of the targeted plant; every other field of
\* that plant and every other plant are as they were before the call.
C2_LogCareFrame ==
    [][(request'.op = "log_plant_care" /\ response'.status = 200) =>
        LET id == request'.plant_id
            k == request'.careType
            now == request'.now
        IN  /\ Len(plants') = Len(plants)
            /\ id \in 1..Len(plants)
            /\ plants'[id][LastField(k)] = now
            /\ plants'[id][NextField(k)] =
                  PlusFrequency(now, plants[id].plantType, k)
            /\ DOMAIN plants'[id] = DOMAIN plants[id]
            /\ \A f \in DOMAIN plants[id] \ {LastField(k), NextField(k)} :
                  plants'[id][f] = plants[id][f]
            /\ \A j \in 1..Len(plants) : j # id => plants'[j] = plants[j]
            /\ response'.plant = <<plants'[id]>>]_vars

\* watering was logged on one of two stored plants
C2_Witness ==
    /\ request.op = "log_plant_care"
    /\ response.status = 200
    /\ request.careType = "water"
    /\ Len(plants) = 2
    /\ plants[request.plant_id].lastWateredDate = request.now
    /\ plants[request.plant_id].lastFertilizedDate # request.now

-----------------------------------------------------------------------------
(* C3 *)

\* C3: whenever add_plant fails (a missing required field, no care rule for
\* the type, a timestamp that does not parse, or any other failure) no plant
\* record is created: the stored plants are exactly those before the call and
\* the response carries no plant.
C3_NoPartialOutput ==
    [][(request'.op = "add_plant" /\ response'.status # 201) =>
        /\ plants' = plants
        /\ response'.plant = <<>>
        /\ initLog' = initLog]_vars

\* add_plant failed on its last timestamp while a plant was stored
C3_Witness ==
    /\ request.op = "add_plant"
    /\ response.status = 500
    /\ MalformedFields(request.form) = {"lastRepottedDate"}
    /\ Len(plants) = 1

-----------------------------------------------------------------------------
(* C4 *)

\* C4: a care rule with a zero or negative frequency makes add_plant and
\* log_plant_care fail and store no schedule, so that no stored plant has a
\* next-due date earlier than or equal to its last-performed date, for any
\* care kind.
C4_NextAfterLast ==
    /\ (request.op \in {"add_plant", "log_plant_care"}
        /\ response.status \in {200, 201}) =>
           \A k \in Kinds :
               CareFrequency(plants[IF request.op = "add_plant" THEN Len(plants)
                                    ELSE request.plant_id].plantType, k) > 0
    /\ \A i \in 1..Len(plants) : \A k \in Kinds :
           ToOrdinal(plants[i][NextField(k)]) > ToOrdinal(plants[i][LastField(k)])

-----------------------------------------------------------------------------
(* C5 *)

\* the add_plant request fails on exactly one malformed last-performed
\* timestamp and on nothing else
OnlyTimestampFault(req) ==
    /\ req.op = "add_plant"
    /\ \A f \in RequiredAddFields : ~Missing(req.form[f])
    /\ req.form.plantImage # "fail"
    /\ find_rule(req.form.plantType) # 0
    /\ Cardinality(MalformedFields(req.form)) = 1

\* C5: when exactly one of the three last-performed timestamps of add_plant
\* is malformed, no schedule is produced and the error returned identifies the
\* offending field: it differs from the error returned when another field is
\* the malformed one and from the error of every other kind of failure.
C5_InvalidTimestampNamesField ==
    [][/\ OnlyTimestampFault(request') =>
             plants' = plants /\ response'.plant = <<>> /\ response'.status # 201
       /\ (/\ OnlyTimestampFault(request)
           /\ request'.op = "add_plant"
           /\ response'.status # 201
           /\ ~(/\ OnlyTimestampFault(request')
                /\ MalformedFields(request'.form) = MalformedFields(request.form)))
          => response' # response]_vars

-----------------------------------------------------------------------------
(* C6 *)

\* C6: when the rule lookup of add_plant (required fields present, upload not
\* failed) or of log_plant_care (careType present, plant found) finds no care
\* rule for the plant's type, the handler returns the explicit 404 rule-not-
\* found result, which is not the generic internal-error result, and every
\* stored plant is unchanged.
C6_RuleNotFoundExplicit ==
    [][/\ (/\ request'.op = "add_plant"
           /\ \A f \in RequiredAddFields : ~Missing(request'.form[f])
           /\ request'.form.plantImage # "fail"
           /\ find_rule(request'.form.plantType) = 0)
          => /\ response'.status = 404
             /\ response'.message = "Care rules for plant type not found."
             /\ response'.message # InternalError
             /\ plants' = plants
       /\ (/\ request'.op = "log_plant_care"
           /\ request'.careType # ""
           /\ Matched(request'.plant_id)
           /\ find_rule(plants[request'.plant_id].plantType) = 0)
          => /\ response'.status = 404
             /\ response'.message = "Care rules not found"
             /\ response'.message # InternalError
             /\ plants' = plants]_vars

\* care was logged on a stored plant whose type has no rule
C6_Witness ==
    /\ request.op = "log_plant_care"
    /\ request.careType \in Kinds
    /\ Matched(request.plant_id)
    /\ find_rule(plants[request.plant_id].plantType) = 0
    /\ response.status = 404

-----------------------------------------------------------------------------
(* C7 *)

ChangedScheduleFields(i) == {f \in ScheduleFields : plants'[i][f] # plants[i][f]}

PairOf(k) == {LastField(k), NextField(k)}

\* C7 as stated: the schedule fields of an existing plant change only through
\* a care-logging event, which alters one (last_k, next_k) pair; no other
\* operation modifies a schedule field.
C7_OnlyCareLoggingWritesSchedule ==
    [][\A i \in 1..Len(plants) :
          ChangedScheduleFields(i) # {} =>
              /\ request'.op = "log_plant_care"
              /\ request'.plant_id = i
              /\ ChangedScheduleFields(i) \subseteq PairOf(request'.careType)]_vars

\* C7 amended: the schedule fields of an existing plant change only through a
\* successful care-logging event on it, which alters fields of the logged
\* kind's (last_k, next_k) pair only, or through a successful update_plant on
\* it, which rewrites all six; archiving and the reads modify no schedule
\* field.
C7_ScheduleWriters ==
    [][\A i \in 1..Len(plants) :
          ChangedScheduleFields(i) # {} =>
              /\ request'.plant_id = i
              /\ response'.status = 200
              /\ \/ request'.op = "update_plant"
                 \/ /\ request'.op = "log_plant_care"
                    /\ ChangedScheduleFields(i) \subseteq PairOf(request'.careType)]_vars

\* a plant on which watering was logged has been archived
C7_Witness ==
    /\ request.op = "delete_plant"
    /\ response.status = 200
    /\ plants[request.plant_id].isArchived
    /\ plants[request.plant_id].lastWateredDate \in Nows

-----------------------------------------------------------------------------
(* C8 *)

EndsInS(t) == t # <<>> /\ t[Len(t)] = "s"

\* C8 as stated: for every canonical key k the resolver returns k's category
\* both for the input k and for the input k + "s".
C8_KeyAndPluralResolve ==
    \A i \in KeyIds :
        raw \in {CanonicalKeys[i].key, CanonicalKeys[i].key \o <<"s">>}
            => resolved = CanonicalKeys[i].type

\* C8 amended: for every canonical key k the resolver returns k's category
\* for the input k + "s"; for the input k it returns k's category when k does
\* not end in 's' (indoor, outdoor, flower, vegetable) and "unresolved" when
\* it does (herbs, cactus), the normalization having removed that 's'.
C8_PluralResolves ==
    \A i \in KeyIds :
        LET k == CanonicalKeys[i].key
        IN  /\ raw = k \o <<"s">> => resolved = CanonicalKeys[i].type
            /\ (raw = k /\ ~EndsInS(k)) => resolved = CanonicalKeys[i].type
            /\ (raw = k /\ EndsInS(k)) => resolved = "unresolved"

\* the key "cactus" itself was resolved, to no category
C8_Witness ==
    /\ raw = <<"c","a","c","t","u","s">>
    /\ resolved = "unresolved"

-----------------------------------------------------------------------------
(* C9 *)

MonthIndex(dt) == dt.y * 12 + dt.m - 1

DayAfter(dt) ==
    IF dt.d < DaysInMonth(dt.y, dt.m) THEN Date(dt.y, dt.m, dt.d + 1)
    ELSE IF dt.m < 12 THEN Date(dt.y, dt.m + 1, 1)
    ELSE Date(dt.y + 1, 1, 1)

DayBefore(dt) ==
    IF dt.d > 1 THEN Date(dt.y, dt.m, dt.d - 1)
    ELSE IF dt.m > 1 THEN Date(dt.y, dt.m - 1, DaysInMonth(dt.y, dt.m - 1))
    ELSE Date(dt.y - 1, 12, 31)

\* the date n days after dt (before, for negative n), one day at a time
RECURSIVE StepDays(_, _)
StepDays(dt, n) ==
    IF n = 0 THEN dt
    ELSE IF n > 0 THEN StepDays(DayAfter(dt), n - 1)
    ELSE StepDays(DayBefore(dt), n + 1)

\* C9: the next repotting date lies the rule's number of calendar months
\* after the last repotting, on the same day-of-month or, when the target
\* month has no such day, on its last day (2024-01-31 plus one month is
\* 2024-02-29); the next watering and fertilizing dates lie exactly the rule's
\* number of days after the last ones.
C9_MonthClampingAndExactDays ==
    \A i \in 1..Len(plants) :
        LET p == plants[i]
            lr == p.lastRepottedDate
            nr == p.nextRepottingDate
            last_day == DaysInMonth(nr.y, nr.m)
        IN  /\ MonthIndex(nr) = MonthIndex(lr) + CareFrequency(p.plantType, "repot")
            /\ nr.d = IF lr.d <= last_day THEN lr.d ELSE last_day
            /\ (lr = Date(2024, 1, 31) /\ CareFrequency(p.plantType, "repot") = 1)
                  => nr = Date(2024, 2, 29)
            /\ p.nextWateringDate =
                  StepDays(p.lastWateredDate, CareFrequency(p.plantType, "water"))
            /\ p.nextFertilizingDate =
                  StepDays(p.lastFertilizedDate,
                           CareFrequency(p.plantType, "fertilize"))

\* a plant last repotted on 2024-01-31 under a one-month rule is due on the
\* clamped day 2024-02-29, and a logged repotting on 2024-05-31 is due on
\* 2024-06-30
C9_Witness ==
    /\ Len(plants) = 2
    /\ plants[1].lastRepottedDate = Date(2024, 1, 31)
    /\ plants[1].nextRepottingDate = Date(2024, 2, 29)
    /\ plants[2].lastRepottedDate = Date(2024, 5, 31)
    /\ plants[2].nextRepottingDate = Date(2024, 6, 30)

-----------------------------------------------------------------------------
(* C10 *)

SameInputs(a, b) ==
    /\ a.plantType = b.plantType
    /\ a.lastWateredDate = b.lastWateredDate
    /\ a.lastFertilizedDate = b.lastFertilizedDate
    /\ a.lastRepottedDate = b.lastRepottedDate

-----------------------------------------------------------------------------
(* C13 *)

\* C13: the plant type that add_plant or update_plant stores always matches a
\* care rule under the exact-match lookup of log_plant_care, so that a
\* log_plant_care call with a valid care kind on a stored plant never fails
\* with "Care rules not found".
C13_StoredTypeHasRule ==
    /\ \A i \in 1..Len(plants) : find_rule(plants[i].plantType) # 0
    /\ (/\ request.op = "log_plant_care"
        /\ request.careType \in Kinds
        /\ Matched(request.plant_id))
       => response.message # "Care rules not found"

-----------------------------------------------------------------------------
(* C14 *)

\* the indices of the stored plants that a garden listing of uid must hold
ListedIds(docs, uid) ==
    {i \in 1..Len(docs) : docs[i].uid = uid /\ ~docs[i].isArchived}

\* C14: no operation removes a plant record; a successful delete_plant marks
\* its plant archived; an archived plant stays archived and keeps its owner
\* through every later operation; get_garden(uid) returns exactly the stored
\* plants owned by uid that are not archived.
C14_ArchiveOneWay ==
    [][/\ Len(plants') >= Len(plants)
       /\ \A i \in 1..Len(plants) :
             /\ plants[i].isArchived => plants'[i].isArchived
             /\ plants'[i].uid = plants[i].uid
       /\ (request'.op = "delete_plant" /\ response'.status = 200) =>
             /\ Len(plants') = Len(plants)
             /\ plants'[request'.plant_id].isArchived
       /\ request'.op = "get_garden" =>
             /\ Len(response'.plant) =
                   Cardinality(ListedIds(plants', request'.uid))
             /\ {response'.plant[j] : j \in 1..Len(response'.plant)} =
                   {plants'[i] : i \in ListedIds(plants', request'.uid)}]_vars

\* the garden of a user whose only plant was archived is listed, empty
C14_Witness ==
    /\ request.op = "get_garden"
    /\ response.plant = <<>>
    /\ \E i \in 1..Len(plants) : plants[i].uid = request.uid /\ plants[i].isArchived

-----------------------------------------------------------------------------
(* C11 *)

\* the runs that logged care kind k on plant id and wrote
Writers(id, k) ==
    {p \in ProcIds :
        /\ procs[p].op = "log_plant_care"
        /\ procs[p].plant_id = id
        /\ procs[p].careType = k
        /\ procs[p].pc \in {"reply", "done"}
        /\ procs[p].writes # <<>>}

\* C11: when log-care events for the same plant and the same care kind k run
\* concurrently, under every interleaving of their reads and writes, the
\* stored pair satisfies next_k = last_k + frequency_k in every state, and
\* once a run has written it is the pair one of those runs wrote: last_k is
\* that run's now and next_k is that run's now + frequency_k, never one run's
\* last_k with another run's next_k.
C11_LastWriterWins ==
    \A i \in 1..Len(plants) :
        /\ ScheduleDerived(plants[i])
        /\ \A k \in Kinds :
              Writers(i, k) # {} =>
                  \E p \in Writers(i, k) :
                      /\ plants[i][LastField(k)] = procs[p].now
                      /\ plants[i][NextField(k)] =
                            PlusFrequency(procs[p].now, plants[i].plantType, k)

\* two repotting runs on the same plant, at different times, both read the
\* plant before either wrote, and both have returned
C11_Witness ==
    /\ AllDone
    /\ Len(procs) >= 2
    /\ procs[1].careType = "repot" /\ procs[2].careType = "repot"
    /\ procs[1].status = 200 /\ procs[2].status = 200
    /\ procs[1].now # procs[2].now
    /\ procs[1].plant = procs[2].plant
    /\ procs[1].plant[1].lastRepottedDate \notin {procs[1].now, procs[2].now}
    /\ plants[1].lastRepottedDate = procs[1].now

-----------------------------------------------------------------------------
(* C12 *)

\* the update_plant run and a log_plant_care run on the same plant have both
\* written and returned
UpdateAndLogDone(i) ==
    /\ AllDone
    /\ \E p \in ProcIds :
          /\ procs[p].op = "update_plant"
          /\ procs[p].plant_id = i
          /\ procs[p].status = 200
    /\ \E p \in ProcIds :
          /\ procs[p].op = "log_plant_care"
          /\ procs[p].plant_id = i
          /\ procs[p].status = 200

\* C12: under every interleaving of an update_plant run with a log_plant_care
\* run on the same plant, once both have completed, every care kind k of the
\* stored schedule satisfies next_k = last_k + frequency_k with frequency_k
\* taken from the rule of the type the plant finally stores.
C12_UpdateLogRaceDerived ==
    \A i \in 1..Len(plants) :
        UpdateAndLogDone(i) => ScheduleDerived(plants[i])

-----------------------------------------------------------------------------
(* C15 *)

OneProfilePerUid(docs) ==
    \A i, j \in 1..Len(docs) : docs[i].uid = docs[j].uid => i = j

\* C15: at most one user profile exists per uid, also when several
\* create_user_profile runs for the same uid interleave their lookup and
\* insert steps, and no create_user_profile step changes a stored profile.
C15_OneProfilePerUid ==
    [][/\ OneProfilePerUid(users')
       /\ \A i \in 1..Len(users) : users'[i] = users[i]]_vars

====
